---- MODULE Spec2Model ----
(***************************************************************************)
(* Peak analysis of Scattered Light Imaging profiles (SLIX).               *)
(*                                                                         *)
(* One pixel is modelled: its circular signal, its peak flags and every    *)
(* array the stage kernels of SLIX_GPU/_toolbox.py derive from them, and   *)
(* beside it the host functions of Python/Library/ScatterPlotToolbox.py    *)
(* that analyse the extended signal of the same pixel.                     *)
(*                                                                         *)
(* Numbers.  Samples are integers in hundredths (100 is 1.00).  Angles are  *)
(* integers in ticks, 2 * len * Float32Step ticks to the degree for a      *)
(* signal of len samples: the kernels compute them in double precision,    *)
(* which is exact here, and store them in single precision arrays, which   *)
(* hold the multiples of Float32Step only.  Centroid offsets are integers  *)
(* in units of 1/OffsetUnit of a sample where they are inputs, so that an  *)
(* offset of one unit moves an angle by one tick, and exact fractions      *)
(* <<num, den>> where the centroid kernel computes them.                   *)
(***************************************************************************)
EXTENDS Integers, Sequences, FiniteSets, TLC

\* ---------------------------------------------------------------- constants

BACKGROUND_COLOR == -1
MAX_DISTANCE_FOR_CENTROID_ESTIMATION == 3
NUMBER_OF_SAMPLES == 100
\* 0.94, in hundredths
TARGET_PEAK_HEIGHT == 94
\* the trailing dimension of the direction result (peak_array of shape [.., 2])
num_directions == 2

\* ------------------------------------------------------------------- bounds

\* the longest signal of the direction specification (and MaxLen - 1 with it)
MaxLen == 12
\* how many detected peaks the thresholds of find_peaks may suppress
MaxSuppressed == 1

\* ---------------------------------------------------------------- variables

VARIABLES
    n,                \* samples per period of the pixel's signal
    fill,             \* what the output arrays held before any kernel ran
    image,            \* the signal, 0..n-1 -> sample
    peaks,            \* raw peak flags, the input of _peak_cleanup
    resulting_peaks,  \* the output of _peak_cleanup
    peak_image,       \* the peak flags the stage kernels read
    reverse_peaks,    \* flags of the minima, read by _centroid_correction_bases
    prominence,       \* output of _prominence
    target_height,    \* the target_height argument of _peakwidth, in quarters
    width,            \* output of _peakwidth, a fraction <<num, den>> per sample
    left_bases,       \* outputs of _centroid_correction_bases
    right_bases,
    centroid_peaks,   \* output of _centroid, the centroid_array of the classifiers
    number_of_peaks,  \* the pixel's peak count, as passed to the classifiers
    direction,        \* result_image of _direction, 0..num_directions-1 -> ticks
    distance,         \* result_image of _peakdistance
    found,            \* what find_peaks returned for the extended signal
    cut_peaks,        \* peak_array_from_roiset: its local peaks after the edge cut
    peak_array,       \* peak_array_from_roiset: the peak count it reports
    cpu_direction,    \* crossing_direction_array_from_roiset: peak_array[i], 2 slots
    roiset,           \* two grids of extended signals, run -> pixel -> roi
    grid_peak_array,  \* peak_array_from_roiset's result per grid, <<>> before the call
    grid_direction,   \* crossing_direction_array_from_roiset's result per grid
    done              \* the operations that have run

vars == <<n, fill, image, peaks, resulting_peaks, peak_image, reverse_peaks,
          prominence, target_height, width, left_bases, right_bases, centroid_peaks,
          number_of_peaks, direction, distance, found, cut_peaks, peak_array,
          cpu_direction, roiset, grid_peak_array, grid_direction, done>>

gpu_signal_vars == <<image, peaks, resulting_peaks, reverse_peaks, prominence,
                     target_height, width, left_bases, right_bases>>

cpu_vars == <<found, cut_peaks, peak_array, cpu_direction>>

grid_vars == <<roiset, grid_peak_array, grid_direction>>

\* ------------------------------------------------------------------ helpers

Abs(x) == IF x < 0 THEN -x ELSE x

Max(a, b) == IF a < b THEN b ELSE a

Min(a, b) == IF b < a THEN b ELSE a

\* the spacing, in ticks, of the values a float32 result array holds at the
\* magnitude of an angle; offsets near zero are held far more finely
Float32Step == 5

\* d degrees in ticks, for a signal of len samples
Deg(d, len) == d * 2 * len * Float32Step

\* the units of a centroid offset that make one sample
OffsetUnit == 720 * Float32Step

\* the float32 that results when a result array is assigned the double v: the
\* nearest value the array holds, the even one of two equally near
Store32(v) ==
    LET r == v % Float32Step
        below == v - r
    IN IF 2 * r < Float32Step THEN below
       ELSE IF 2 * r > Float32Step THEN below + Float32Step
       ELSE IF (below \div Float32Step) % 2 = 0 THEN below
       ELSE below + Float32Step

\* x % 180 on angles in ticks; Python's % takes the sign of the divisor
Mod180(x, len) == x % Deg(180, len)

\* (index + offset) * 360.0 / len in ticks, the offset in units
Angle(i, c) == i * OffsetUnit + c

Indices(len) == 0..(len - 1)

Constant(len, v) == [i \in Indices(len) |-> v]

Flags(P, len) == [i \in Indices(len) |-> IF i \in P THEN 1 ELSE 0]

Flagged(flags) == {i \in DOMAIN flags : flags[i] = 1}

RECURSIVE SortedSeq(_)
SortedSeq(S) ==
    IF S = {} THEN <<>>
    ELSE LET m == CHOOSE x \in S : \A y \in S : x <= y
         IN <<m>> \o SortedSeq(S \ {m})

Range(s) == {s[j] : j \in DOMAIN s}

\* the two runs of the host functions on a grid, and a grid no run has seen
Runs == {"a", "b"}

IdleGrid ==
    /\ roiset = [run \in Runs |-> <<>>]
    /\ grid_peak_array = [run \in Runs |-> <<>>]
    /\ grid_direction = [run \in Runs |-> <<>>]

\* --------------------------------------------------- _toolbox.py, classifiers

\* A read beyond the end of a pixel's array is not checked by the kernel: it
\* yields whatever lies there, oob.flag for a peak flag and oob.cent for a
\* centroid offset.
OobValues == [flag : {0, 1}, cent : {0}]

FlagAt(sub_peak_array, p, oob) ==
    IF p \in DOMAIN sub_peak_array THEN sub_peak_array[p] ELSE oob.flag

CentAt(sub_centroid_array, p, oob) ==
    IF p \in DOMAIN sub_centroid_array THEN sub_centroid_array[p] ELSE oob.cent

\* while right_side_peak > 0 and current_position < len(sub_peak_array): ...
\* gives <<right_side_peak, current_position>> at the loop's exit
RECURSIVE WalkRight(_, _, _, _)
WalkRight(sub_peak_array, right_side_peak, current_position, oob) ==
    IF right_side_peak > 0 /\ current_position < Cardinality(DOMAIN sub_peak_array)
    THEN LET next == current_position + 1
         IN WalkRight(sub_peak_array,
                      IF FlagAt(sub_peak_array, next, oob) = 1
                      THEN right_side_peak - 1 ELSE right_side_peak,
                      next, oob)
    ELSE <<right_side_peak, current_position>>

\* (270.0 - left) % 180
SingleDirection(left, len) == Mod180(Deg(270, len) - left, len)

\* (270.0 - ((left + right) / 2.0)) % 180
PairDirection(left, right, len) == Mod180(Deg(270, len) - (left + right) \div 2, len)

\* PairAccepted with the separation test applied to two peaks as well
PairAcceptedTested(count, left, right, len) ==
    Abs(Deg(180, len) - (right - left)) < Deg(35, len)

\* current_number_of_peaks == 2 or abs(180 - (right - left)) < 35
PairAccepted(count, left, right, len) ==
    count = 2 \/ Abs(Deg(180, len) - (right - left)) < Deg(35, len)

\* the for loop of _direction from index i on
RECURSIVE DirectionLoop(_, _, _, _, _, _, _)
DirectionLoop(sub_peak_array, sub_centroid_array, count, i, current_direction, result, oob) ==
    LET len == Cardinality(DOMAIN sub_peak_array)
    IN IF i >= len THEN result
       ELSE IF sub_peak_array[i] # 1
       THEN DirectionLoop(sub_peak_array, sub_centroid_array, count, i + 1,
                          current_direction, result, oob)
       ELSE LET left == Angle(i, sub_centroid_array[i])
            IN IF count = 1
               THEN [result EXCEPT ![current_direction] =
                             Store32(SingleDirection(left, len))]
               ELSE IF count % 2 = 0
               THEN LET w == WalkRight(sub_peak_array, count \div 2, i, oob)
                        right == Angle(w[2], CentAt(sub_centroid_array, w[2], oob))
                        written ==
                            IF w[1] = 0 /\ PairAccepted(count, left, right, len)
                            THEN [result EXCEPT ![current_direction] =
                                      Store32(PairDirection(left, right, len))]
                            ELSE result
                    IN IF current_direction + 1 = count \div 2
                       THEN written
                       ELSE DirectionLoop(sub_peak_array, sub_centroid_array, count,
                                          i + 1, current_direction + 1, written, oob)
               ELSE DirectionLoop(sub_peak_array, sub_centroid_array, count, i + 1,
                                  current_direction, result, oob)

\* _direction for one pixel: the new result_image[idx, idy, :]
DirectionKernel(sub_peak_array, sub_centroid_array, count, oob) ==
    LET len == Cardinality(DOMAIN sub_peak_array)
        cleared == [d \in 0..(num_directions - 1) |-> Deg(BACKGROUND_COLOR, len)]
    IN IF count \div 2 <= num_directions
       THEN DirectionLoop(sub_peak_array, sub_centroid_array, count, 0, 0, cleared, oob)
       ELSE cleared

\* PairDistances without the partner's complementary gap
PairDistancesFirstOnly(result, i, current_position, left, right, len) ==
    [result EXCEPT ![i] = Store32(right - left)]

\* result_image[idx, idy, i] = right - left
\* result_image[idx, idy, current_position] = 360 - (right - left)
PairDistances(result, i, current_position, left, right, len) ==
    LET first == [result EXCEPT ![i] = Store32(right - left)]
    IN IF current_position \in DOMAIN result
       THEN [first EXCEPT ![current_position] =
                 Store32(Deg(360, len) - (right - left))]
       ELSE first

\* the for loop of _peakdistance from index i on
RECURSIVE DistanceLoop(_, _, _, _, _, _, _)
DistanceLoop(sub_peak_array, sub_centroid_array, count, i, current_pair, result, oob) ==
    LET len == Cardinality(DOMAIN sub_peak_array)
    IN IF i >= len THEN result
       ELSE IF sub_peak_array[i] # 1
       THEN DistanceLoop(sub_peak_array, sub_centroid_array, count, i + 1,
                         current_pair, result, oob)
       ELSE IF count = 1
       THEN [result EXCEPT ![i] = Deg(360, len)]
       ELSE LET even == count % 2 = 0
                left == Angle(i, sub_centroid_array[i])
                w == WalkRight(sub_peak_array, count \div 2, i, oob)
                right == Angle(w[2], CentAt(sub_centroid_array, w[2], oob))
                written ==
                    IF ~even THEN result
                    ELSE IF w[1] > 0 THEN [result EXCEPT ![i] = 0]
                    ELSE PairDistances(result, i, w[2], left, right, len)
                pair == IF even THEN current_pair + 1 ELSE current_pair
            IN IF pair = count \div 2
               THEN written
               ELSE DistanceLoop(sub_peak_array, sub_centroid_array, count, i + 1,
                                 pair, written, oob)

\* _peakdistance for one pixel: the new result_image[idx, idy, :]
DistanceKernel(sub_peak_array, sub_centroid_array, count, result, oob) ==
    DistanceLoop(sub_peak_array, sub_centroid_array, count, 0, 0, result, oob)

Direction ==
    /\ \E oob \in OobValues :
           direction' = DirectionKernel(peak_image, centroid_peaks, number_of_peaks, oob)
    /\ done' = done \cup {"direction"}
    /\ UNCHANGED <<n, fill, peak_image, centroid_peaks, number_of_peaks, distance>>
    /\ UNCHANGED gpu_signal_vars
    /\ UNCHANGED cpu_vars
    /\ UNCHANGED grid_vars

PeakDistance ==
    /\ \E oob \in OobValues :
           distance' = DistanceKernel(peak_image, centroid_peaks, number_of_peaks,
                                      distance, oob)
    /\ done' = done \cup {"peakdistance"}
    /\ UNCHANGED <<n, fill, peak_image, centroid_peaks, number_of_peaks, direction>>
    /\ UNCHANGED gpu_signal_vars
    /\ UNCHANGED cpu_vars
    /\ UNCHANGED grid_vars

\* ------------------------------------------------- ScatterPlotToolbox.py, host

\* numpy.concatenate((roi[-z//2:], roi, roi[:z//2])): the sample of the period
\* that index p of the extended signal holds (-z//2 is -ceil(z/2))
PeriodPosition(p, z) == (p - ((z + 1) \div 2)) % z

\* peaks[(peaks >= z//2) & (peaks <= len(roi)-z//2)]
InBounds(peaks_, z, roi_len) ==
    SelectSeq(peaks_, LAMBDA p : p >= z \div 2 /\ p <= roi_len - z \div 2)

\* if numpy.all(numpy.isin([z//2, len(roi)-z//2], peaks)): peaks = peaks[1:]
FilterDoublePeak(peaks_, z, roi_len) ==
    IF {z \div 2, roi_len - z \div 2} \subseteq Range(peaks_)
    THEN Tail(peaks_)
    ELSE peaks_

\* the edge cut of the four *_from_roiset functions (cut_edges=True)
CutEdges(peaks_, z, roi_len) == FilterDoublePeak(InBounds(peaks_, z, roi_len), z, roi_len)

\* len(peaks[(peaks >= z//2) & (peaks <= len(roi)-z//2)])
AmountOfPeaks(peaks_, z, roi_len) == Len(InBounds(peaks_, z, roi_len))

\* peaks = (peaks - z//2) * (360.0 / z), in ticks
ScalePeaks(peaks_, z) ==
    [j \in DOMAIN peaks_ |-> (peaks_[j] - z \div 2) * OffsetUnit]

\* (270 - peaks[0]) % 180
CpuSingleDirection(a, z) == Mod180(Deg(270, z) - a, z)

\* (270 - ((peaks[b] + peaks[a]) / 2.0)) % 180
CpuPairDirection(a, b, z) == Mod180(Deg(270, z) - (b + a) \div 2, z)

\* numpy.abs((peaks[a] - peaks[b]) - 180) < 35
CpuOpposite(a, b, z) == Abs((a - b) - Deg(180, z)) < Deg(35, z)

\* the if/elif chain of crossing_direction_array_from_roiset on the scaled
\* peaks (1-based here, peaks[0] is pk[1]): the new peak_array[i] of two slots
CrossingBranches(pk, amount_of_peaks, z, old) ==
    LET both(v) == [d \in 0..1 |-> v]
        bg == Deg(BACKGROUND_COLOR, z)
    IN IF amount_of_peaks = 1 THEN both(CpuSingleDirection(pk[1], z))
       ELSE IF amount_of_peaks = 2 THEN both(CpuPairDirection(pk[1], pk[2], z))
       ELSE IF amount_of_peaks = 3
       THEN IF CpuOpposite(pk[1], pk[3], z)
            THEN (0 :> CpuPairDirection(pk[1], pk[3], z)) @@ (1 :> CpuSingleDirection(pk[2], z))
            ELSE IF CpuOpposite(pk[2], pk[1], z)
            THEN (0 :> CpuPairDirection(pk[1], pk[2], z)) @@ (1 :> CpuSingleDirection(pk[3], z))
            ELSE IF CpuOpposite(pk[2], pk[3], z)
            THEN (0 :> CpuPairDirection(pk[3], pk[2], z)) @@ (1 :> CpuSingleDirection(pk[1], z))
            ELSE both(bg)
       ELSE IF amount_of_peaks = 4
       THEN LET second == [old EXCEPT ![1] =
                              IF CpuOpposite(pk[4], pk[2], z)
                              THEN CpuPairDirection(pk[2], pk[4], z) ELSE bg]
            IN IF CpuOpposite(pk[3], pk[1], z)
               THEN [second EXCEPT ![0] = CpuPairDirection(pk[1], pk[3], z)]
               ELSE both(bg)
       ELSE both(bg)

\* crossing_direction_array_from_roiset for one roi, given find_peaks' result;
\* peak_array is a float32 array
CrossingDirectionOf(found_, z, roi_len, old) ==
    LET cut == CutEdges(found_, z, roi_len)
        row == CrossingBranches(ScalePeaks(cut, z), AmountOfPeaks(cut, z, roi_len),
                                z, old)
    IN [d \in DOMAIN row |-> Store32(row[d])]

CrossingDirection ==
    /\ cpu_direction' = CrossingDirectionOf(found, n, 2 * n, cpu_direction)
    /\ done' = done \cup {"crossing_direction"}
    /\ UNCHANGED <<n, fill, peak_image, centroid_peaks, number_of_peaks, direction,
                   distance, found, cut_peaks, peak_array>>
    /\ UNCHANGED gpu_signal_vars
    /\ UNCHANGED grid_vars

\* peak_array_from_roiset for one roi, given find_peaks' result
PeakArrayFromRoiset ==
    /\ cut_peaks' = CutEdges(found, n, 2 * n)
    /\ peak_array' = AmountOfPeaks(CutEdges(found, n, 2 * n), n, 2 * n)
    /\ done' = done \cup {"peak_array"}
    /\ UNCHANGED <<n, fill, peak_image, centroid_peaks, number_of_peaks, direction,
                   distance, found, cpu_direction>>
    /\ UNCHANGED gpu_signal_vars
    /\ UNCHANGED grid_vars

\* ---------------------------------------------- the direction specification

\* peak sets with no two circularly adjacent members
IsolatedSets(len) ==
    {P \in SUBSET Indices(len) : \A i \in P : ((i + 1) % len) \notin P}

\* find_peaks on the extended signal of a pixel whose period has its peaks at
\* P: a peak recurs at every index of the extension that holds its sample; the
\* first and the last index are never reported
Detected(P, len) == {p \in 1..(2 * len - 2) : PeriodPosition(p, len) \in P}

\* ... and the thresholds (width, prominence, distance) may suppress some
FindPeaksResults(P, len) ==
    {SortedSeq(Detected(P, len) \ D) :
        D \in {X \in SUBSET Detected(P, len) : Cardinality(X) <= MaxSuppressed}}

\* centroid offsets within [-1, 1]: a whole sample either way, none, half a
\* sample, and one far below the spacing of the stored angles
Offsets == {-OffsetUnit, 0, 2, OffsetUnit \div 2, OffsetUnit}

\* the centroid array of a pixel: 0 off the peaks, c1 at the first peak and
\* c2 at the others
Centroids(P, len, c1, c2) ==
    [i \in Indices(len) |->
        IF i \notin P THEN 0
        ELSE IF \A j \in P : i <= j THEN c1 ELSE c2]

\* what an output array may hold before its kernel runs: zeros, or something else
Fills == {0, 75}

\* the direction specification starts from output arrays that are not zeroed
DirFills == Fills \ {0}

Lengths == (MaxLen - 1)..MaxLen

InitDir ==
    /\ n \in Lengths
    /\ fill \in DirFills
    /\ \E P \in IsolatedSets(n) :
        /\ peak_image = Flags(P, n)
        /\ number_of_peaks = Cardinality(P)
        /\ \E c1 \in Offsets, c2 \in Offsets, f \in FindPeaksResults(P, n) :
            /\ (c1 = 0 /\ c2 = 0) \/ f = SortedSeq(Detected(P, n))
            /\ centroid_peaks = Centroids(P, n, c1, c2)
            /\ found = f
    /\ image = Constant(n, 0)
    /\ peaks = Constant(n, 0)
    /\ resulting_peaks = Constant(n, 0)
    /\ reverse_peaks = Constant(n, 0)
    /\ prominence = Constant(n, 0)
    /\ target_height = 2
    /\ width = Constant(n, <<0, 1>>)
    /\ left_bases = Constant(n, 0)
    /\ right_bases = Constant(n, 0)
    /\ direction = [d \in 0..(num_directions - 1) |-> fill]
    /\ distance = Constant(n, fill)
    /\ cut_peaks = <<>>
    /\ peak_array = 0
    /\ cpu_direction = [d \in 0..1 |-> 0]
    /\ IdleGrid
    /\ done = {}

\* the two direction classifiers on the same pixel
NextDir == Direction \/ CrossingDirection

SpecDir == InitDir /\ [][NextDir]_vars

\* the distance kernel
NextDistance == PeakDistance

SpecDistance == InitDir /\ [][NextDistance]_vars

\* the host peak counter
NextPeaks == PeakArrayFromRoiset

SpecPeaks == InitDir /\ [][NextPeaks]_vars

\* ------------------------------------------------ properties: the classifiers

Background == Deg(BACKGROUND_COLOR, n)

\* the pixel's peaks in ascending order, as the kernels see them
PeakSeq == SortedSeq(Flagged(peak_image))

\* the angle of the j-th peak of the kernels (1-based), centroid included
GpuAngle(j) == Angle(PeakSeq[j], centroid_peaks[PeakSeq[j]])

\* the peaks the host keeps after its edge cut, and the angle of the j-th
Survivors == CutEdges(found, n, 2 * n)

HostAngle(j) == (Survivors[j] - n \div 2) * OffsetUnit

\* a separation within 35 degrees of 180 between an earlier and a later angle
Qualifies(a, b) == Abs((b - a) - Deg(180, n)) < Deg(35, n)

\* the directions of the arity table, as a float32 result holds them
MidpointDirection(a, b) == Store32((Deg(270, n) - (a + b) \div 2) % Deg(180, n))

OwnDirection(a) == Store32((Deg(270, n) - a) % Deg(180, n))

InRange(v) == v = Background \/ (0 <= v /\ v < Deg(180, n))

\* C1: every direction value written by _direction and by
\* crossing_direction_array_from_roiset is BACKGROUND (-1) or lies in [0, 180).
C1_DirectionsInRange ==
    /\ "direction" \in done => \A d \in DOMAIN direction : InRange(direction[d])
    /\ "crossing_direction" \in done =>
           \A d \in DOMAIN cpu_direction : InRange(cpu_direction[d])

\* the host's part of C1 alone: its angles carry no centroid offset
C1_HostDirectionsInRange ==
    "crossing_direction" \in done =>
        \A d \in DOMAIN cpu_direction : InRange(cpu_direction[d])

\* the kernel's part of C1 for centroid offsets the stored angles can resolve
C1_ResolvedDirectionsInRange ==
    ("direction" \in done
         /\ \A i \in DOMAIN centroid_peaks : centroid_peaks[i] % Float32Step = 0) =>
        \A d \in DOMAIN direction : InRange(direction[d])

\* the rule of the arity table for three peaks at angles a1 < a2 < a3
ThreePeakRule(res, a1, a2, a3) ==
    LET q12 == Qualifies(a1, a2)
        q13 == Qualifies(a1, a3)
        q23 == Qualifies(a2, a3)
    IN /\ (q12 /\ ~q13 /\ ~q23) =>
              res[0] = MidpointDirection(a1, a2) /\ res[1] = OwnDirection(a3)
       /\ (~q12 /\ q13 /\ ~q23) =>
              res[0] = MidpointDirection(a1, a3) /\ res[1] = OwnDirection(a2)
       /\ (~q12 /\ ~q13 /\ q23) =>
              res[0] = MidpointDirection(a2, a3) /\ res[1] = OwnDirection(a1)
       /\ (~q12 /\ ~q13 /\ ~q23) =>
              res[0] = Background /\ res[1] = Background

\* C2: with exactly 3 peaks all three pairs are tested for a separation within
\* 35 degrees of 180; exactly one qualifying pair gives its midpoint direction
\* and the leftover peak's own direction, no qualifying pair gives BACKGROUND
\* twice.
C2_ThreePeaks ==
    /\ ("crossing_direction" \in done /\ Len(Survivors) = 3) =>
           ThreePeakRule(cpu_direction, HostAngle(1), HostAngle(2), HostAngle(3))
    /\ ("direction" \in done /\ number_of_peaks = 3) =>
           ThreePeakRule(direction, GpuAngle(1), GpuAngle(2), GpuAngle(3))

\* the host part of C2 alone
C2_ThreePeaksHost ==
    ("crossing_direction" \in done /\ Len(Survivors) = 3) =>
        ThreePeakRule(cpu_direction, HostAngle(1), HostAngle(2), HostAngle(3))

\* the rule of the arity table for four peaks at angles a1 < a2 < a3 < a4
FourPeakRule(res, a1, a2, a3, a4) ==
    /\ res[0] = IF Qualifies(a1, a3) THEN MidpointDirection(a1, a3) ELSE Background
    /\ res[1] = IF Qualifies(a2, a4) THEN MidpointDirection(a2, a4) ELSE Background

\* C3: with exactly 4 peaks the pairs (0,2) and (1,3) are judged independently,
\* each slot holding its pair's midpoint direction iff the pair is within 35
\* degrees of 180, else BACKGROUND.
C3_FourPeaks ==
    /\ ("crossing_direction" \in done /\ Len(Survivors) = 4) =>
           FourPeakRule(cpu_direction, HostAngle(1), HostAngle(2), HostAngle(3),
                        HostAngle(4))
    /\ ("direction" \in done /\ number_of_peaks = 4) =>
           FourPeakRule(direction, GpuAngle(1), GpuAngle(2), GpuAngle(3), GpuAngle(4))

\* the kernel's part of C3 alone
C3_FourPeaksKernel ==
    ("direction" \in done /\ number_of_peaks = 4) =>
        FourPeakRule(direction, GpuAngle(1), GpuAngle(2), GpuAngle(3), GpuAngle(4))

\* the two classifiers were given the same peak positions and no centroid offset
SameInput ==
    /\ \A i \in DOMAIN centroid_peaks : centroid_peaks[i] = 0
    /\ Range(Survivors) = {q + n \div 2 : q \in Flagged(peak_image)}

\* C4: on the same peak positions with zero centroid offsets the host
\* classifier and the kernel give the same pair of direction values.
C4_SameDirections ==
    ({"direction", "crossing_direction"} \subseteq done /\ SameInput) =>
        \A d \in 0..1 : direction[d] = cpu_direction[d]

\* C5: 0 peaks give BACKGROUND in every slot, 1 peak gives (270 - angle0) mod
\* 180 first, 2 peaks give (270 - (angle0 + angle1)/2) mod 180 first with no
\* separation test, more than 4 peaks give BACKGROUND in every slot; a direction
\* is compared as the float32 result array holds it.
C5_SimpleCounts ==
    /\ "direction" \in done =>
        /\ (number_of_peaks = 0 \/ number_of_peaks > 4) =>
               \A d \in DOMAIN direction : direction[d] = Background
        /\ number_of_peaks = 1 => direction[0] = OwnDirection(GpuAngle(1))
        /\ number_of_peaks = 2 =>
               direction[0] = MidpointDirection(GpuAngle(1), GpuAngle(2))
    /\ "crossing_direction" \in done =>
        /\ (Len(Survivors) = 0 \/ Len(Survivors) > 4) =>
               \A d \in DOMAIN cpu_direction : cpu_direction[d] = Background
        /\ Len(Survivors) = 1 => cpu_direction[0] = OwnDirection(HostAngle(1))
        /\ Len(Survivors) = 2 =>
               cpu_direction[0] = MidpointDirection(HostAngle(1), HostAngle(2))

\* two peaks at 90 and 270 degrees, not within 35 degrees of anything but each
\* other, give 90 on both sides
C5_Witness ==
    /\ {"direction", "crossing_direction"} \subseteq done
    /\ n = 12 /\ Flagged(peak_image) = {3, 9} /\ SameInput
    /\ direction[0] = Deg(90, n) /\ cpu_direction[0] = Deg(90, n)

\* two peaks 60 degrees apart, classified without a separation test
C5_WitnessClose ==
    /\ "direction" \in done
    /\ number_of_peaks = 2 /\ GpuAngle(2) - GpuAngle(1) = Deg(60, n)
    /\ direction[0] # Background

\* six peaks, more than the result has slots for
C5_WitnessMany ==
    /\ {"direction", "crossing_direction"} \subseteq done
    /\ number_of_peaks = 6 /\ Len(Survivors) = 6

\* ------------------------------------------- properties: distance, edge cut

\* C9: in _peakdistance an even count k >= 2 gives every flagged position a
\* distance, rank j < k/2 the gap to rank j + k/2 and that partner the
\* complementary gap, the two summing to 360; exactly one peak gets 360; an odd
\* count of at least 3 writes nothing; a gap is compared as the float32 result
\* array holds it.
C9_Distances ==
    "peakdistance" \in done =>
        LET k == number_of_peaks
            h == k \div 2
        IN /\ (k >= 2 /\ k % 2 = 0) =>
                  \A j \in 1..h :
                      /\ distance[PeakSeq[j]] = Store32(GpuAngle(j + h) - GpuAngle(j))
                      /\ distance[PeakSeq[j + h]] =
                             Store32(Deg(360, n) - (GpuAngle(j + h) - GpuAngle(j)))
                      /\ distance[PeakSeq[j]] + distance[PeakSeq[j + h]] = Deg(360, n)
           /\ k = 1 => distance[PeakSeq[1]] = Deg(360, n)
           /\ (k >= 3 /\ k % 2 = 1) => distance = Constant(n, fill)

\* four peaks with centroid offsets, paired (0,2) and (1,3), the first pair
\* 165 degrees apart
C9_Witness ==
    /\ "peakdistance" \in done
    /\ number_of_peaks = 4 /\ n = 12
    /\ centroid_peaks[PeakSeq[1]] = OffsetUnit \div 2
    /\ centroid_peaks[PeakSeq[3]] = OffsetUnit
    /\ distance[PeakSeq[1]] = Deg(165, n)
    /\ distance[PeakSeq[3]] = Deg(195, n)
    /\ distance[PeakSeq[2]] # fill /\ distance[PeakSeq[4]] # fill

\* C8: after the edge cut on an extended signal of length 2n the surviving
\* peaks ascend, lie in [n/2, length - n/2] and no two of them denote the same
\* position of the period; when both boundary indices were detected the
\* earlier one is removed and the later one survives; the reported count is
\* the number of survivors.
C8_EdgeCut ==
    "peak_array" \in done =>
        LET lo == n \div 2
            hi == 2 * n - n \div 2
        IN /\ \A i, j \in DOMAIN cut_peaks : i < j => cut_peaks[i] < cut_peaks[j]
           /\ \A i \in DOMAIN cut_peaks : lo <= cut_peaks[i] /\ cut_peaks[i] <= hi
           /\ \A i, j \in DOMAIN cut_peaks :
                  i < j => (cut_peaks[j] - cut_peaks[i]) % n # 0
           /\ {lo, hi} \subseteq Range(found) =>
                  lo \notin Range(cut_peaks) /\ hi \in Range(cut_peaks)
           /\ peak_array = Len(cut_peaks)

\* C8 on signals with an even number of samples only
C8_EdgeCutEven == n % 2 = 0 => C8_EdgeCut

\* ------------------------------------------------ _toolbox.py, signal kernels

\* sub_image[i]: a negative index counts from the end of the array, an index
\* beyond the end is not checked and reads what lies there (garbage[i])
At(a, i, garbage) ==
    IF i \in DOMAIN a THEN a[i]
    ELSE IF i < 0 THEN a[i + Cardinality(DOMAIN a)]
    ELSE garbage[i]

NoGarbage == <<>>

\* the inner while loop of _peak_cleanup: <<sub_peak_array, resulting, offset>>
RECURSIVE CleanupRun(_, _, _, _)
CleanupRun(sub_peak_array, resulting, pos, offset) ==
    LET q == (pos + offset) % Cardinality(DOMAIN sub_peak_array)
    IN IF sub_peak_array[q] = 1
       THEN CleanupRun([sub_peak_array EXCEPT ![q] = 0], [resulting EXCEPT ![q] = 0],
                       pos, offset + 1)
       ELSE <<sub_peak_array, resulting, offset>>

\* the outer while loop of _peak_cleanup from pos on: <<sub_peak_array, resulting>>
RECURSIVE CleanupLoop(_, _, _)
CleanupLoop(sub_peak_array, resulting, pos) ==
    LET len == Cardinality(DOMAIN sub_peak_array)
    IN IF pos >= len THEN <<sub_peak_array, resulting>>
       ELSE IF sub_peak_array[pos] = 1
       THEN LET r == CleanupRun([sub_peak_array EXCEPT ![pos] = 0], resulting, pos, 1)
                mid == (pos + (r[3] - 1) \div 2) % len
            IN CleanupLoop(r[1], [r[2] EXCEPT ![mid] = 1], pos + r[3])
       ELSE CleanupLoop(sub_peak_array, [resulting EXCEPT ![pos] = 0], pos + 1)

\* sub_peak_array is a view of peaks: the kernel writes to its argument
PeakCleanup ==
    /\ LET r == CleanupLoop(peaks, resulting_peaks, 0)
       IN peaks' = r[1] /\ resulting_peaks' = r[2]
    /\ done' = done \cup {"peak_cleanup"}
    /\ UNCHANGED <<n, fill, image, peak_image, reverse_peaks, prominence,
                   target_height, width, left_bases, right_bases, centroid_peaks,
                   number_of_peaks, direction, distance>>
    /\ UNCHANGED cpu_vars
    /\ UNCHANGED grid_vars

\* the left scan of _prominence: while i_min <= i and sub_image[i] <=
\* sub_image[pos] and wlen > 0, with i_min = -len / 2
RECURSIVE LeftMin(_, _, _, _, _)
LeftMin(sub_image, pos, i, wlen, left_min) ==
    IF /\ -Cardinality(DOMAIN sub_image) <= 2 * i
       /\ At(sub_image, i, NoGarbage) <= sub_image[pos]
       /\ wlen > 0
    THEN LeftMin(sub_image, pos, i - 1, wlen - 1,
                 Min(left_min, At(sub_image, i, NoGarbage)))
    ELSE left_min

\* the right scan: while i <= i_max and sub_image[i % len] <= sub_image[pos]
\* and wlen > 0, with i_max = int(len * 1.5)
RECURSIVE RightMin(_, _, _, _, _)
RightMin(sub_image, pos, i, wlen, right_min) ==
    LET len == Cardinality(DOMAIN sub_image)
    IN IF /\ i <= (3 * len) \div 2
          /\ sub_image[i % len] <= sub_image[pos]
          /\ wlen > 0
       THEN RightMin(sub_image, pos, i + 1, wlen - 1, Min(right_min, sub_image[i % len]))
       ELSE right_min

\* result_image[idx, idy, pos] of _prominence at a peak
ProminenceAt(sub_image, pos) ==
    LET wlen == Cardinality(DOMAIN sub_image) - 1
    IN sub_image[pos] - Max(LeftMin(sub_image, pos, pos, wlen, sub_image[pos]),
                            RightMin(sub_image, pos, pos, wlen, sub_image[pos]))

ProminenceKernel(sub_image, sub_peak_array) ==
    [pos \in DOMAIN sub_peak_array |->
        IF sub_peak_array[pos] = 1 THEN ProminenceAt(sub_image, pos) ELSE 0]

Prominence ==
    /\ prominence' = ProminenceKernel(image, peak_image)
    /\ done' = done \cup {"prominence"}
    /\ UNCHANGED <<n, fill, image, peaks, resulting_peaks, peak_image, reverse_peaks,
                   target_height, width, left_bases, right_bases, centroid_peaks,
                   number_of_peaks, direction, distance>>
    /\ UNCHANGED cpu_vars
    /\ UNCHANGED grid_vars

\* Height4 with the fraction measured from the base of the peak upwards
Height4FromBase(sub_image, sub_prominence, pos, target_height_) ==
    4 * sub_image[pos] - sub_prominence[pos] * (4 - target_height_)

\* height = sub_image[pos] - sub_prominece[pos] * target_height, times 4
Height4(sub_image, sub_prominence, pos, target_height_) ==
    4 * sub_image[pos] - sub_prominence[pos] * target_height_

\* while i_min < i and height < sub_image[i]: i -= 1
RECURSIVE WalkLeft(_, _, _)
WalkLeft(sub_image, height4, i) ==
    IF -Cardinality(DOMAIN sub_image) < 2 * i /\ height4 < 4 * At(sub_image, i, NoGarbage)
    THEN WalkLeft(sub_image, height4, i - 1)
    ELSE i

\* while i < i_max and height < sub_image[i]: i += 1
RECURSIVE WalkUp(_, _, _, _)
WalkUp(sub_image, height4, i, garbage) ==
    IF /\ i < (3 * Cardinality(DOMAIN sub_image)) \div 2
       /\ height4 < 4 * At(sub_image, i, garbage)
    THEN WalkUp(sub_image, height4, i + 1, garbage)
    ELSE i

\* the interpolation step (height - sub_image[i]) / (sub_image[j] - sub_image[i]),
\* taken if sub_image[i] < height: a fraction <<num, den>>, <<0, 1>> if not taken
Interpolation(sub_image, height4, i, j, garbage) ==
    IF 4 * At(sub_image, i, garbage) < height4
    THEN <<height4 - 4 * At(sub_image, i, garbage),
           4 * (At(sub_image, j, garbage) - At(sub_image, i, garbage))>>
    ELSE <<0, 1>>

\* right_ip - left_ip of _peakwidth at a peak, a fraction <<num, den>> whose
\* den is 0 where the kernel divides by zero
WidthAt(sub_image, sub_prominence, pos, target_height_, garbage) ==
    LET height4 == Height4(sub_image, sub_prominence, pos, target_height_)
        il == WalkLeft(sub_image, height4, pos)
        fl == Interpolation(sub_image, height4, il, il + 1, garbage)
        ir == WalkUp(sub_image, height4, pos, garbage)
        fr == Interpolation(sub_image, height4, ir, ir - 1, garbage)
    IN <<(ir - il) * fl[2] * fr[2] - fr[1] * fl[2] - fl[1] * fr[2], fl[2] * fr[2]>>

\* the indices i of every sub_image[i] that _peakwidth evaluates at a peak: in
\* the tests of the two walks, in the two tests "sub_image[i] < height" and
\* in the two interpolation steps
WidthReads(sub_image, sub_prominence, pos, target_height_, garbage) ==
    LET len == Cardinality(DOMAIN sub_image)
        height4 == Height4(sub_image, sub_prominence, pos, target_height_)
        il == WalkLeft(sub_image, height4, pos)
        ir == WalkUp(sub_image, height4, pos, garbage)
        left_test == {i \in il..pos : -len < 2 * i}
        right_test == {i \in pos..ir : i < (3 * len) \div 2}
        left_step == IF 4 * At(sub_image, il, NoGarbage) < height4
                     THEN {il + 1} ELSE {}
        right_step == IF 4 * At(sub_image, ir, garbage) < height4
                      THEN {ir - 1} ELSE {}
    IN left_test \cup {il} \cup left_step \cup right_test \cup {ir} \cup right_step

PeakwidthKernel(sub_image, sub_peak_array, sub_prominence, target_height_, garbage) ==
    [pos \in DOMAIN sub_peak_array |->
        IF sub_peak_array[pos] = 1
        THEN WidthAt(sub_image, sub_prominence, pos, target_height_, garbage)
        ELSE <<0, 1>>]

\* the sample values of the signal specifications, in hundredths
Samples == {0, 50, 100}

\* what the right walk of _peakwidth may read beyond the pixel's signal
Garbage(len) == [len..((3 * len) \div 2) -> {0, 100}]

Peakwidth ==
    /\ \E garbage \in Garbage(n) :
           width' = PeakwidthKernel(image, peak_image, prominence, target_height, garbage)
    /\ done' = done \cup {"peakwidth"}
    /\ UNCHANGED <<n, fill, image, peaks, resulting_peaks, peak_image, reverse_peaks,
                   prominence, target_height, left_bases, right_bases, centroid_peaks,
                   number_of_peaks, direction, distance>>
    /\ UNCHANGED cpu_vars
    /\ UNCHANGED grid_vars

\* --------------------------------------------- _toolbox.py, centroid kernels

\* max_pos of _centroid_correction_bases: the largest sample, at least 0
RECURSIVE MaxPos(_, _, _)
MaxPos(sub_image, pos, max_pos) ==
    IF pos >= Cardinality(DOMAIN sub_image) THEN max_pos
    ELSE MaxPos(sub_image, pos + 1, Max(max_pos, sub_image[pos]))

\* max(0, sub_image[pos] - max_pos * (1 - TARGET_PEAK_HEIGHT)), times 100
TargetPeakHeight100(sub_image, pos) ==
    Max(0, 100 * sub_image[pos] - MaxPos(sub_image, 0, 0) * (100 - TARGET_PEAK_HEIGHT))

\* for offset in range(1, MAX_DISTANCE_FOR_CENTROID_ESTIMATION): the last
\* offset with a minimum flag at index(offset) wins
RECURSIVE MinimumInRange(_, _, _, _, _)
MinimumInRange(sub_reverse_peaks, pos, sign, offset, position) ==
    IF offset >= MAX_DISTANCE_FOR_CENTROID_ESTIMATION THEN position
    ELSE LET len == Cardinality(DOMAIN sub_reverse_peaks)
             flag == IF sign < 0
                     THEN At(sub_reverse_peaks, pos - offset, NoGarbage)
                     ELSE sub_reverse_peaks[(pos + offset) % len]
         IN MinimumInRange(sub_reverse_peaks, pos, sign, offset + 1,
                           IF flag = 1 THEN offset ELSE position)

\* for offset in range(position): if sub_image[..] < target_peak_height:
\*     position = offset; break
RECURSIVE HeightInRange(_, _, _, _, _, _)
HeightInRange(sub_image, pos, sign, offset, position, target100) ==
    IF offset >= position THEN position
    ELSE LET len == Cardinality(DOMAIN sub_image)
             v == IF sign < 0
                  THEN At(sub_image, pos - offset, NoGarbage)
                  ELSE sub_image[(pos + offset) % len]
         IN IF 100 * v < target100 THEN offset
            ELSE HeightInRange(sub_image, pos, sign, offset + 1, position, target100)

\* left_position (sign -1) or right_position (sign +1) of a peak at pos
BaseAt(sub_image, sub_reverse_peaks, pos, sign) ==
    HeightInRange(sub_image, pos, sign, 0,
                  MinimumInRange(sub_reverse_peaks, pos, sign, 1,
                                 MAX_DISTANCE_FOR_CENTROID_ESTIMATION),
                  TargetPeakHeight100(sub_image, pos))

BasesKernel(sub_image, sub_peaks, sub_reverse_peaks, sign) ==
    [pos \in DOMAIN sub_peaks |->
        IF sub_peaks[pos] = 1 THEN BaseAt(sub_image, sub_reverse_peaks, pos, sign) ELSE 0]

CentroidCorrectionBases ==
    /\ left_bases' = BasesKernel(image, peak_image, reverse_peaks, -1)
    /\ right_bases' = BasesKernel(image, peak_image, reverse_peaks, 1)
    /\ done' = done \cup {"centroid_correction_bases"}
    /\ UNCHANGED <<n, fill, image, peaks, resulting_peaks, peak_image, reverse_peaks,
                   prominence, target_height, width, centroid_peaks, number_of_peaks,
                   direction, distance>>
    /\ UNCHANGED cpu_vars
    /\ UNCHANGED grid_vars

\* func_val = img_pixel + (next_img_pixel - img_pixel) * step, times 10000
FuncVal(img_pixel, next_img_pixel, interp) ==
    NUMBER_OF_SAMPLES * img_pixel + (next_img_pixel - img_pixel) * interp

\* the right side of: if func_val > sub_peaks[pos] * TARGET_PEAK_HEIGHT,
\* times 10000
Threshold(sub_image, sub_peaks, pos) ==
    sub_peaks[pos] * TARGET_PEAK_HEIGHT * NUMBER_OF_SAMPLES

\* the body of the interp loop: what one interpolated sample adds to
\* <<centroid_sum_top, centroid_sum_bottom>>, top in 10^-6 and bottom in 10^-4
SampleTerm(img_pixel, next_img_pixel, threshold, x, interp) ==
    LET func_val == FuncVal(img_pixel, next_img_pixel, interp)
    IN IF func_val > threshold
       THEN <<(NUMBER_OF_SAMPLES * x + interp) * func_val, func_val>>
       ELSE <<0, 0>>

\* for interp in range(NUMBER_OF_SAMPLES + 1): the terms of the samples
\* lo..hi summed (the sums are exact, so the order of the additions is free)
RECURSIVE InterpolateOver(_, _, _, _, _, _)
InterpolateOver(img_pixel, next_img_pixel, threshold, x, lo, hi) ==
    IF lo = hi THEN SampleTerm(img_pixel, next_img_pixel, threshold, x, lo)
    ELSE LET mid == (lo + hi) \div 2
             a == InterpolateOver(img_pixel, next_img_pixel, threshold, x, lo, mid)
             b == InterpolateOver(img_pixel, next_img_pixel, threshold, x, mid + 1, hi)
         IN <<a[1] + b[1], a[2] + b[2]>>

\* for x in range(-sub_left_bases[pos], sub_right_bases[pos]): the sums
\* <<centroid_sum_top, centroid_sum_bottom>> of the intervals from x on
RECURSIVE CentroidSums(_, _, _, _, _)
CentroidSums(sub_image, sub_peaks, pos, x, right) ==
    IF x >= right THEN <<0, 0>>
    ELSE LET len == Cardinality(DOMAIN sub_image)
             here == InterpolateOver(sub_image[(pos + x) % len],
                                     sub_image[(pos + x + 1) % len],
                                     Threshold(sub_image, sub_peaks, pos),
                                     x, 0, NUMBER_OF_SAMPLES)
             rest == CentroidSums(sub_image, sub_peaks, pos, x + 1, right)
         IN <<here[1] + rest[1], here[2] + rest[2]>>

\* centroid = centroid_sum_top / centroid_sum_bottom, cut to [-1, 1]: a
\* fraction <<num, den>>.  0.0 / 0.0 is not a number, and neither comparison
\* of the cut is true of it: <<0, 0>> is stored.
Clamp(sums) ==
    IF sums[2] = 0 THEN <<sums[1], 0>>
    ELSE IF sums[1] > NUMBER_OF_SAMPLES * sums[2] THEN <<1, 1>>
    ELSE IF sums[1] < -(NUMBER_OF_SAMPLES * sums[2]) THEN <<-1, 1>>
    ELSE <<sums[1], NUMBER_OF_SAMPLES * sums[2]>>

CentroidAt(sub_image, sub_peaks, pos, left, right) ==
    Clamp(CentroidSums(sub_image, sub_peaks, pos, -left, right))

CentroidKernel(sub_image, sub_peaks, sub_left_bases, sub_right_bases) ==
    [pos \in DOMAIN sub_peaks |->
        IF sub_peaks[pos] = 1
        THEN CentroidAt(sub_image, sub_peaks, pos, sub_left_bases[pos],
                        sub_right_bases[pos])
        ELSE <<0, 1>>]

Centroid ==
    /\ centroid_peaks' = CentroidKernel(image, peak_image, left_bases, right_bases)
    /\ done' = done \cup {"centroid"}
    /\ UNCHANGED <<n, fill, image, peaks, resulting_peaks, peak_image, reverse_peaks,
                   prominence, target_height, width, left_bases, right_bases,
                   number_of_peaks, direction, distance>>
    /\ UNCHANGED cpu_vars
    /\ UNCHANGED grid_vars

\* -------------------------------------- the signal and centroid specifications

\* the signal length of the signal and centroid specifications
SigLen == 4

Signals(len) == [Indices(len) -> Samples]

FlagArrays(len) == [Indices(len) -> {0, 1}]

\* the flags of the strict circular minima of a signal: the peaks of the
\* inverted signal
ReversePeaks(sub_image) ==
    LET len == Cardinality(DOMAIN sub_image)
    IN [i \in DOMAIN sub_image |->
           IF /\ sub_image[i] < sub_image[(i + 1) % len]
              /\ sub_image[i] < sub_image[(i + len - 1) % len]
           THEN 1 ELSE 0]

\* what the direction side holds in the signal and centroid specifications
IdleClassifiers ==
    /\ number_of_peaks = Cardinality(Flagged(peak_image))
    /\ direction = [d \in 0..(num_directions - 1) |-> fill]
    /\ distance = Constant(n, fill)
    /\ found = <<>>
    /\ cut_peaks = <<>>
    /\ peak_array = 0
    /\ cpu_direction = [d \in 0..1 |-> 0]
    /\ IdleGrid
    /\ done = {}

InitSignal ==
    /\ n = SigLen
    /\ fill \in Fills
    /\ image \in Signals(n)
    /\ peak_image \in FlagArrays(n)
    /\ peaks = peak_image
    /\ resulting_peaks = Constant(n, fill)
    /\ reverse_peaks = ReversePeaks(image)
    /\ prominence = Constant(n, fill)
    /\ target_height = 2
    /\ width = Constant(n, <<fill, 1>>)
    /\ left_bases = Constant(n, 0)
    /\ right_bases = Constant(n, 0)
    /\ centroid_peaks = Constant(n, <<0, 1>>)
    /\ IdleClassifiers

NextSignal == PeakCleanup \/ Prominence \/ Peakwidth

SpecSignal == InitSignal /\ [][NextSignal]_vars

\* at most one peak, any signal, any base widths in
\* 0..MAX_DISTANCE_FOR_CENTROID_ESTIMATION
InitCentroid ==
    /\ n = SigLen
    /\ fill \in DirFills
    /\ image \in Signals(n)
    /\ \E P \in {{}} \cup {{p} : p \in Indices(n)} : peak_image = Flags(P, n)
    /\ peaks = peak_image
    /\ resulting_peaks = Constant(n, 0)
    /\ reverse_peaks = ReversePeaks(image)
    /\ prominence = Constant(n, 0)
    /\ target_height = 2
    /\ width = Constant(n, <<0, 1>>)
    /\ \E l, r \in 0..MAX_DISTANCE_FOR_CENTROID_ESTIMATION :
           left_bases = Constant(n, l) /\ right_bases = Constant(n, r)
    /\ centroid_peaks = Constant(n, <<fill, 1>>)
    /\ IdleClassifiers

NextCentroid == CentroidCorrectionBases \/ Centroid

SpecCentroid == InitCentroid /\ [][NextCentroid]_vars

\* ------------------------------------------- properties: the stage kernels

NoPeaks == Flagged(peak_image) = {}

\* what C6 says of the prominence, width, centroid and direction outputs
C6_OtherOutputs ==
    NoPeaks =>
        /\ "prominence" \in done => \A i \in DOMAIN prominence : prominence[i] = 0
        /\ "peakwidth" \in done => \A i \in DOMAIN width : width[i] = <<0, 1>>
        /\ "centroid" \in done =>
               \A i \in DOMAIN centroid_peaks : centroid_peaks[i] = <<0, 1>>
        /\ "direction" \in done =>
               \A d \in DOMAIN direction : direction[d] = Background

\* C6: for a pixel with no peak flag set, after the stage kernels have run the
\* prominence, width and centroid outputs are 0 at every position, both
\* direction slots are BACKGROUND and the distance output is 0 at every
\* position, whatever the output arrays held before.
C6_NoPeakOutputs ==
    /\ C6_OtherOutputs
    /\ (NoPeaks /\ "peakdistance" \in done) =>
           \A i \in DOMAIN distance : distance[i] = 0

\* a stored centroid is a number within [-1, 1]
CentroidDefined(c) == c[2] > 0 /\ -c[2] <= c[1] /\ c[1] <= c[2]

\* C7: for every signal, peak position and base widths left, right in 0..3 the
\* value the centroid kernel stores for the peak is a defined number within
\* [-1, 1], the empty window and the zero weight sum included.
C7_CentroidBounded ==
    "centroid" \in done =>
        \A pos \in Flagged(peak_image) : CentroidDefined(centroid_peaks[pos])

\* what holds of it: a centroid with a weight sum other than zero is in [-1, 1]
C7_BoundedWhenWeighted ==
    "centroid" \in done =>
        \A pos \in Flagged(peak_image) :
            centroid_peaks[pos][2] # 0 => CentroidDefined(centroid_peaks[pos])

\* C10: no stage modifies any of its input arrays: every step leaves the
\* signal, the peak flags, the minima flags and the peak count as they were,
\* and a kernel that writes its output leaves the arrays it reads unchanged.
C10_InputsPreserved ==
    [][/\ image' = image
       /\ peaks' = peaks
       /\ peak_image' = peak_image
       /\ reverse_peaks' = reverse_peaks
       /\ number_of_peaks' = number_of_peaks
       /\ width' # width => prominence' = prominence
       /\ centroid_peaks' # centroid_peaks =>
              left_bases' = left_bases /\ right_bases' = right_bases
       /\ (direction' # direction \/ distance' # distance) =>
              centroid_peaks' = centroid_peaks]_vars

\* what C10 concludes: a second run of _peak_cleanup on the same arrays gives
\* the output of the first
C10_SecondRunSame ==
    "peak_cleanup" \in done => CleanupLoop(peaks, resulting_peaks, 0)[2] = resulting_peaks

\* C10 for every kernel but _peak_cleanup
C10_OtherInputsPreserved ==
    [][/\ image' = image
       /\ peak_image' = peak_image
       /\ reverse_peaks' = reverse_peaks
       /\ number_of_peaks' = number_of_peaks
       /\ width' # width => prominence' = prominence
       /\ centroid_peaks' # centroid_peaks =>
              left_bases' = left_bases /\ right_bases' = right_bases
       /\ (direction' # direction \/ distance' # distance) =>
              centroid_peaks' = centroid_peaks]_vars


\* --------------------------------- ScatterPlotToolbox.py, the host on a grid

\* the pixels of a grid and the samples per period of its signals
GridPixels == 2

GridLen == 4

Pixels == 1..GridPixels

\* numpy.concatenate((roi[-z//2:], roi, roi[:z//2])) of a period of z samples
Extend(period, z) == [p \in 0..(2 * z - 1) |-> period[PeriodPosition(p, z)]]

RECURSIVE SumFrom(_, _)
SumFrom(roi, p) ==
    IF p \notin DOMAIN roi THEN 0 ELSE roi[p] + SumFrom(roi, p + 1)

\* roiset.mean() as the fraction <<sum, count>> over every sample of every pixel
RECURSIVE GridSum(_, _)
GridSum(grid, i) ==
    IF i \notin DOMAIN grid THEN 0 ELSE SumFrom(grid[i], 0) + GridSum(grid, i + 1)

GridMean(grid) ==
    <<GridSum(grid, 1), Len(grid) * Cardinality(DOMAIN grid[1])>>

\* find_peaks, first step: the middle of every plateau that rises strictly on
\* its left and falls strictly on its right; never the first or last sample
LocalMaxima(x) ==
    LET last == Cardinality(DOMAIN x) - 1
    IN {m \in 1..(last - 1) :
           \E l \in 1..m, r \in m..(last - 1) :
               /\ m = (l + r) \div 2
               /\ \A q \in l..r : x[q] = x[m]
               /\ x[l - 1] < x[m]
               /\ x[r + 1] < x[m]}

\* find_peaks, prominence: the lowest sample on one side of a peak (step -1 or
\* +1) up to the first higher sample or the end of the array
RECURSIVE SideMin(_, _, _, _, _)
SideMin(x, peak, i, step, side_min) ==
    IF i \in DOMAIN x /\ x[i] <= x[peak]
    THEN SideMin(x, peak, i + step, step, Min(side_min, x[i]))
    ELSE side_min

PeakProminence(x, peak) ==
    x[peak] - Max(SideMin(x, peak, peak, -1, x[peak]), SideMin(x, peak, peak, 1, x[peak]))

\* find_peaks, width at half the prominence: the walk from the peak down to
\* the first sample not above the height (twice the height is height2)
RECURSIVE SideWalk(_, _, _, _)
SideWalk(x, height2, i, step) ==
    IF (i + step) \in DOMAIN x /\ height2 < 2 * x[i]
    THEN SideWalk(x, height2, i + step, step)
    ELSE i

\* width >= 1 for the peak's width right_ip - left_ip at rel_height 0.5
WideEnough(x, peak) ==
    LET height2 == 2 * x[peak] - PeakProminence(x, peak)
        il == SideWalk(x, height2, peak, -1)
        ir == SideWalk(x, height2, peak, 1)
        fl == IF 2 * x[il] < height2
              THEN <<height2 - 2 * x[il], 2 * (x[il + 1] - x[il])>> ELSE <<0, 1>>
        fr == IF 2 * x[ir] < height2
              THEN <<height2 - 2 * x[ir], 2 * (x[ir - 1] - x[ir])>> ELSE <<0, 1>>
    IN (ir - il - 1) * fl[2] * fr[2] >= fl[1] * fr[2] + fr[1] * fl[2]

\* roiset = (roiset.copy() - roiset.std()) / roiset.mean() and then
\* find_peaks(roi, width=1, prominence=(0.125, None), distance=1) on one roi of
\* the normalised grid (its mean positive): the shift by std() leaves maxima,
\* prominences and widths as they are, the division by mean() divides every
\* prominence, so a peak passes if prominence / mean >= 0.125
FindPeaksNormalised(x, mean) ==
    SortedSeq({peak \in LocalMaxima(x) :
                   /\ 8 * PeakProminence(x, peak) * mean[2] >= mean[1]
                   /\ WideEnough(x, peak)})

\* peak_array_from_roiset on a grid: peak_array, one count per pixel
GridPeakArrayOf(grid) ==
    [i \in DOMAIN grid |->
        LET roi_len == Cardinality(DOMAIN grid[i])
            z == roi_len \div 2
            found_ == FindPeaksNormalised(grid[i], GridMean(grid))
        IN AmountOfPeaks(CutEdges(found_, z, roi_len), z, roi_len)]

\* crossing_direction_array_from_roiset on a grid: peak_array, two slots per
\* pixel, all 0 at allocation
GridDirectionOf(grid) ==
    [i \in DOMAIN grid |->
        LET roi_len == Cardinality(DOMAIN grid[i])
            z == roi_len \div 2
            found_ == FindPeaksNormalised(grid[i], GridMean(grid))
        IN CrossingDirectionOf(found_, z, roi_len, [d \in 0..1 |-> 0])]

GridPeakArray ==
    /\ \E run \in Runs :
           grid_peak_array' = [grid_peak_array EXCEPT ![run] = GridPeakArrayOf(roiset[run])]
    /\ done' = done \cup {"grid_peak_array"}
    /\ UNCHANGED <<n, fill, peak_image, centroid_peaks, number_of_peaks, direction,
                   distance, roiset, grid_direction>>
    /\ UNCHANGED gpu_signal_vars
    /\ UNCHANGED cpu_vars

GridCrossingDirection ==
    /\ \E run \in Runs :
           grid_direction' = [grid_direction EXCEPT ![run] = GridDirectionOf(roiset[run])]
    /\ done' = done \cup {"grid_direction"}
    /\ UNCHANGED <<n, fill, peak_image, centroid_peaks, number_of_peaks, direction,
                   distance, roiset, grid_peak_array>>
    /\ UNCHANGED gpu_signal_vars
    /\ UNCHANGED cpu_vars

\* the periods of the pixel under observation, and those of the other pixels:
\* dark, plain or bright
OwnPeriods == [Indices(GridLen) -> Samples]

OtherPeriods == {Constant(GridLen, v) : v \in {10, 100, 1000}}

\* two grids that agree on pixel 1
InitGrid ==
    /\ n = GridLen
    /\ fill = 0
    /\ \E own \in OwnPeriods :
           roiset \in [Runs -> {[i \in Pixels |-> Extend(IF i = 1 THEN own ELSE other[i], n)] :
                                    other \in [Pixels -> OtherPeriods]}]
    /\ grid_peak_array = [run \in Runs |-> <<>>]
    /\ grid_direction = [run \in Runs |-> <<>>]
    /\ image = Constant(n, 0)
    /\ peaks = Constant(n, 0)
    /\ resulting_peaks = Constant(n, 0)
    /\ peak_image = Constant(n, 0)
    /\ reverse_peaks = Constant(n, 0)
    /\ prominence = Constant(n, 0)
    /\ target_height = 2
    /\ width = Constant(n, <<0, 1>>)
    /\ left_bases = Constant(n, 0)
    /\ right_bases = Constant(n, 0)
    /\ centroid_peaks = Constant(n, 0)
    /\ number_of_peaks = 0
    /\ direction = [d \in 0..(num_directions - 1) |-> 0]
    /\ distance = Constant(n, 0)
    /\ found = <<>>
    /\ cut_peaks = <<>>
    /\ peak_array = 0
    /\ cpu_direction = [d \in 0..1 |-> 0]
    /\ done = {}

NextGrid == GridPeakArray \/ GridCrossingDirection

SpecGrid == InitGrid /\ [][NextGrid]_vars

\* ------------------------------------------------- properties: pixel ownership

\* C11: the peak count and the direction values of a pixel depend on that
\* pixel's own signal only: two grids that agree on pixel 1 give pixel 1 the
\* same results, whatever the other pixels hold.
C11_PixelIndependent ==
    roiset["a"][1] = roiset["b"][1] =>
        /\ (grid_peak_array["a"] # <<>> /\ grid_peak_array["b"] # <<>>) =>
               grid_peak_array["a"][1] = grid_peak_array["b"][1]
        /\ (grid_direction["a"] # <<>> /\ grid_direction["b"] # <<>>) =>
               grid_direction["a"][1] = grid_direction["b"][1]

\* the same for two grids that have the same mean
C11_IndependentAtEqualMean ==
    (roiset["a"][1] = roiset["b"][1]
         /\ GridSum(roiset["a"], 1) = GridSum(roiset["b"], 1)) =>
        /\ (grid_peak_array["a"] # <<>> /\ grid_peak_array["b"] # <<>>) =>
               grid_peak_array["a"][1] = grid_peak_array["b"][1]
        /\ (grid_direction["a"] # <<>> /\ grid_direction["b"] # <<>>) =>
               grid_direction["a"][1] = grid_direction["b"][1]


\* the prominence and width kernels alone
NextWidth == Prominence \/ Peakwidth

SpecWidth == InitSignal /\ [][NextWidth]_vars

\* ------------------------------------------------ properties: width, prominence

\* the target_height arguments compared, in quarters
Heights == 0..4

\* a >= b for two fractions; one with a denominator that is not positive is
\* no number and compares with nothing
RECURSIVE Gcd(_, _)
Gcd(a, b) == IF b = 0 THEN a ELSE Gcd(b, a % b)

Lowest(f) == LET g == Gcd(Abs(f[1]), Abs(f[2])) IN <<f[1] \div g, f[2] \div g>>

FracGE(a, b) ==
    /\ a[2] > 0
    /\ b[2] > 0
    /\ Lowest(a)[1] * Lowest(b)[2] >= Lowest(b)[1] * Lowest(a)[2]

\* the width of the peak at pos for another target_height, h quarters
WidthFor(pos, h, garbage) == WidthAt(image, prominence, pos, h, garbage)

C12_WidthNonNegative ==
    "peakwidth" \in done =>
        \A pos \in Flagged(peak_image) : FracGE(width[pos], <<0, 1>>)

C12_NarrowerAboveAnyRead ==
    "peakwidth" \in done =>
        \A pos \in Flagged(peak_image), garbage \in Garbage(n) :
            \A h \in Heights :
                /\ h < target_height => FracGE(width[pos], WidthFor(pos, h, garbage))
                /\ target_height < h => FracGE(WidthFor(pos, h, garbage), width[pos])


\* the prominence kernel on a signal one sample longer, which the bounds i_min
\* and i_max of its scans cut short
InitProminence ==
    /\ n = SigLen + 1
    /\ fill \in Fills
    /\ image \in Signals(n)
    /\ peak_image \in FlagArrays(n)
    /\ peaks = peak_image
    /\ resulting_peaks = Constant(n, 0)
    /\ reverse_peaks = ReversePeaks(image)
    /\ prominence = Constant(n, fill)
    /\ target_height = 2
    /\ width = Constant(n, <<0, 1>>)
    /\ left_bases = Constant(n, 0)
    /\ right_bases = Constant(n, 0)
    /\ centroid_peaks = Constant(n, <<0, 1>>)
    /\ IdleClassifiers

NextProminence == Prominence

SpecProminence == InitProminence /\ [][NextProminence]_vars

\* the minimum over a circular scan from p in steps of step (-1 left, +1
\* right) that stops at the first sample above value(p) or after len - 1 samples
RECURSIVE CircularMin(_, _, _, _, _)
CircularMin(x, p, step, count, m) ==
    LET len == Cardinality(DOMAIN x)
        q == (p + step * count) % len
    IN IF count < len - 1 /\ x[q] <= x[p]
       THEN CircularMin(x, p, step, count + 1, Min(m, x[q]))
       ELSE m

CircularProminence(x, p) ==
    x[p] - Max(CircularMin(x, p, -1, 0, x[p]), CircularMin(x, p, 1, 0, x[p]))

\* the signal turned circularly by k: sample i moves to (i + k) % len
Rotated(x, k) ==
    LET len == Cardinality(DOMAIN x)
    IN [i \in DOMAIN x |-> x[(i - k) % len]]

\* C13: at every peak the prominence kernel gives value(p) - max(left_min,
\* right_min) over circular scans that stop only at a higher sample or after
\* n - 1 samples, so that the signal and its flags turned circularly by any
\* offset give the turned peak the same prominence.
C13_CircularProminence ==
    "prominence" \in done =>
        \A p \in Flagged(peak_image) :
            /\ prominence[p] = CircularProminence(image, p)
            /\ \A k \in Indices(n) :
                   ProminenceKernel(Rotated(image, k), Rotated(peak_image, k))[(p + k) % n]
                       = prominence[p]

\* C13 for the peaks whose scans stop inside the bounds: whose signal has a
\* higher sample within n / 2 positions to the left and within the positions
\* up to index int(1.5 n) to the right
C13_WithinBounds ==
    "prominence" \in done =>
        \A p \in Flagged(peak_image) :
            ((\E d \in 1..(p + n \div 2) : d <= n - 2 /\ image[(p - d) % n] > image[p])
                 /\ (\E d \in 1..((3 * n) \div 2 - p) :
                         d <= n - 2 /\ image[(p + d) % n] > image[p])) =>
                prominence[p] = CircularProminence(image, p)


\* the values beyond the signal with which the kernel computed the stored width
ReadsOf(pos) ==
    {garbage \in Garbage(n) : width[pos] = WidthFor(pos, target_height, garbage)}

\* C14: every sample index the width estimator reads, in its walks and in its
\* interpolation steps, denotes a sample of the signal and never reaches n or
\* beyond, and the walks stay within n - 1 samples of the peak.
C14_ReadsInSignal ==
    "peakwidth" \in done =>
        \A pos \in Flagged(peak_image) :
            \A garbage \in ReadsOf(pos) :
                LET reads == WidthReads(image, prominence, pos, target_height, garbage)
                IN /\ \A i \in reads : -n <= i /\ i < n
                   /\ \A i \in reads : pos - (n - 1) <= i /\ i <= pos + (n - 1)

\* the left walk alone: its indices are in 0..n-1 or negative and counted from
\* the end of the signal
C14_LeftReadsInSignal ==
    "peakwidth" \in done =>
        \A pos \in Flagged(peak_image) :
            \A garbage \in ReadsOf(pos) :
                \A i \in WidthReads(image, prominence, pos, target_height, garbage) :
                    -n <= i


\* ------------------------------------------------------ properties: centroid

\* the sums <<weighted sum, weight sum>> over the intervals from x on of the
\* interpolated samples above TARGET_PEAK_HEIGHT times the value at the peak
RECURSIVE ScaledSums(_, _, _, _)
ScaledSums(sub_image, pos, x, right) ==
    IF x >= right THEN <<0, 0>>
    ELSE LET len == Cardinality(DOMAIN sub_image)
             here == InterpolateOver(sub_image[(pos + x) % len],
                                     sub_image[(pos + x + 1) % len],
                                     sub_image[pos] * TARGET_PEAK_HEIGHT,
                                     x, 0, NUMBER_OF_SAMPLES)
             rest == ScaledSums(sub_image, pos, x + 1, right)
         IN <<here[1] + rest[1], here[2] + rest[2]>>

\* the stored centroids are those of the bases as they are now
CentroidCurrent ==
    /\ "centroid" \in done
    /\ centroid_peaks = CentroidKernel(image, peak_image, left_bases, right_bases)

\* C15: the interpolated samples that contribute to the two sums of a peak are
\* exactly those above 0.94 times the signal value at the peak position.
C15_ScaledThreshold ==
    CentroidCurrent =>
        \A pos \in Flagged(peak_image) :
            centroid_peaks[pos] =
                Clamp(ScaledSums(image, pos, -left_bases[pos], right_bases[pos]))

\* C15 for the peaks of value 1.0, where the two thresholds are the same number
C15_AtUnitHeight ==
    CentroidCurrent =>
        \A pos \in Flagged(peak_image) :
            image[pos] = NUMBER_OF_SAMPLES =>
                centroid_peaks[pos] =
                    Clamp(ScaledSums(image, pos, -left_bases[pos], right_bases[pos]))


\* ------------------------------------------------- properties: peak cleanup

\* the number of consecutive set flags from start on, around the end, at most
\* the whole array
RECURSIVE RunLength(_, _, _)
RunLength(flags, start, offset) ==
    LET len == Cardinality(DOMAIN flags)
    IN IF offset < len /\ flags[(start + offset) % len] = 1
       THEN RunLength(flags, start, offset + 1)
       ELSE offset

\* the first positions of the maximal circular runs of set flags; a run that
\* fills the array starts at 0
RunStarts(flags) ==
    LET len == Cardinality(DOMAIN flags)
    IN IF \A i \in DOMAIN flags : flags[i] = 1 THEN {0}
       ELSE {s \in DOMAIN flags : flags[s] = 1 /\ flags[(s + len - 1) % len] = 0}

\* one flag per maximal circular run, at its midpoint rounded down
OneFlagPerRun(flags) ==
    LET len == Cardinality(DOMAIN flags)
        mids == {(s + (RunLength(flags, s, 0) - 1) \div 2) % len : s \in RunStarts(flags)}
    IN [i \in DOMAIN flags |-> IF i \in mids THEN 1 ELSE 0]

\* C16: _peak_cleanup leaves in its output exactly one set flag for each
\* maximal circular run of set input flags, at the midpoint of the run rounded
\* down, whatever the output array held before.
C16_OneFlagPerRun ==
    [][PeakCleanup => resulting_peaks' = OneFlagPerRun(peaks)]_vars

\* C16, the particular case: no two circularly adjacent output positions are
\* both set after the kernel ran.
C16_NoAdjacentFlags ==
    "peak_cleanup" \in done =>
        \A i \in DOMAIN resulting_peaks :
            ~(resulting_peaks[i] = 1 /\ resulting_peaks[(i + 1) % n] = 1)

\* C16 where no run goes around the end: the output is one flag per run except
\* at the first position of a run of three or more flags, which is not written
C16_LinearRuns ==
    [][(PeakCleanup /\ (peaks[0] = 0 \/ peaks[n - 1] = 0)) =>
          \A i \in DOMAIN peaks :
              resulting_peaks'[i] =
                  IF i \in RunStarts(peaks) /\ RunLength(peaks, i, 0) >= 3
                  THEN resulting_peaks[i]
                  ELSE OneFlagPerRun(peaks)[i]]_vars

\* C16: the kernel clears every flag of its input
C16_InputCleared ==
    "peak_cleanup" \in done => \A i \in DOMAIN peaks : peaks[i] = 0

====
